---------------------------- MODULE Spec2Model ----------------------------
(***************************************************************************)
(* The PDF knowledge-base chatbot:                                         *)
(*   utils/textProcessing (chunkText, simpleStem, preprocessText,          *)
(*   calculateTFIDF, cosineSimilarity, findRelevantChunks),                *)
(*   services/aiService (generateAIResponse),                              *)
(*   utils/pdfProcessor (processPDF),                                      *)
(*   components/ChatInterface (handleSendMessage) and                      *)
(*   components/DocumentUpload (processFile).                              *)
(*                                                                         *)
(* Strings are sequences of one-character strings, so that split, trim,    *)
(* join and the regular expressions of the source are computed character   *)
(* by character.  Array indices are 0-based in the source and 1-based      *)
(* here; loop counters keep the source's 0-based value.                    *)
(***************************************************************************)
EXTENDS Integers, Sequences, FiniteSets, TLC

VARIABLES
    \* ---- one call of chunkText(text, chunkSize, overlap)
    text,        \* the argument text
    chunkSize,   \* the argument chunkSize
    overlap,     \* the argument overlap
    words,       \* const words = text.split(/\s+/)
    i,           \* the loop counter (0-based, as in the source)
    chunks,      \* const chunks: string[]
    cpc,         \* position in chunkText: "call", "loop", "returned", "raised"
    cerror,      \* the error chunkText has thrown ("none": it has thrown nothing)
    iter,        \* number of loop bodies executed so far
    \* ---- one document indexed by calculateTFIDF and queried by findRelevantChunks
    rchunks,     \* the chunk texts of the document
    rquery,      \* the query string
    rtopK,       \* the argument topK
    rvectors,    \* vectors returned by calculateTFIDF
    rvocabulary, \* vocabulary returned by calculateTFIDF
    rqueryVector,    \* const queryVector
    rsimilarities,   \* const similarities, before the sort
    rresult,     \* the array findRelevantChunks returns
    rpc,         \* "call", "indexed", "returned"
    \* ---- one call of generateAIResponse(query, documents)
    gquery,      \* the argument query
    gdocs,       \* the argument documents
    gidx,        \* documents the for loop has finished
    allRelevantChunks,   \* const allRelevantChunks
    topChunks,   \* const topChunks
    gcontext,    \* const context: the labelled sources, in order
    gcalls,      \* calls of blink.ai.generateText made so far
    gresult,     \* the AIResponse returned
    gerror,      \* the error thrown ("none": nothing was thrown)
    gmismatch,   \* cosineSimilarity was called with vectors of unequal length
    gpc,         \* "loop", "awaiting", "returned", "threw"
    \* ---- one call of simpleStem(word) or of preprocessText(text)
    sword,       \* the argument word of simpleStem
    sresult,     \* the string simpleStem returns
    ptext,       \* the argument text of preprocessText
    stemmed,     \* const stemmed: the array preprocessText returns
    tpc,         \* "stem", "preprocess", "stemmed", "preprocessed"
    \* ---- the ChatInterface component and the calls of handleSendMessage
    input,       \* const [input, setInput]
    isLoading,   \* const [isLoading, setIsLoading]
    anyReady,    \* readyDocuments.length > 0
    authUp,      \* blink.auth.me() resolves (TRUE) or rejects (FALSE)
    messages,    \* the messages handed to onMessageSent, in order
    invoked,     \* calls of handleSendMessage made so far
    hpc,         \* per call: position in handleSendMessage
    hinput,      \* per call: the input the call has read
    hdocs,       \* per call: const processedDocs: "loaded", or "fallback" for some document
    \* ---- one call of processFile(file) of the DocumentUpload component
    ufile,       \* the argument file: is it a PDF, and the chunks processPDF makes of it
    upc,         \* position in processFile
    isUploading, \* const [isUploading, setIsUploading]
    inStorage,   \* the file is in blink.storage
    dbDocuments, \* the records of blink.db.documents: their status
    dbChunks,    \* the records of blink.db.textChunks: their chunk index
    chunkPromises,   \* the textChunks.create calls that have not settled
    uploaded,    \* onDocumentUploaded has been called
    alerted      \* alert has been called

chunkVars == <<text, chunkSize, overlap, words, i, chunks, cpc, cerror, iter>>
rankVars == <<rchunks, rquery, rtopK, rvectors, rvocabulary, rqueryVector,
              rsimilarities, rresult, rpc>>

answerVars == <<gquery, gdocs, gidx, allRelevantChunks, topChunks, gcontext,
                gcalls, gresult, gerror, gmismatch, gpc>>

textVars == <<sword, sresult, ptext, stemmed, tpc>>

chatVars == <<input, isLoading, anyReady, authUp, messages, invoked, hpc, hinput,
              hdocs>>

uploadVars == <<ufile, upc, isUploading, inStorage, dbDocuments, dbChunks, chunkPromises,
                uploaded, alerted>>

vars == <<chunkVars, rankVars, answerVars, textVars, chatVars, uploadVars>>

\* a part of the program that takes no part in a specification
ChunkIdle ==
    /\ text = <<>> /\ chunkSize = 0 /\ overlap = 0 /\ words = <<>> /\ i = 0
    /\ chunks = <<>> /\ cpc = "idle" /\ cerror = "none" /\ iter = 0

RankIdle ==
    /\ rchunks = <<>> /\ rquery = <<>> /\ rtopK = 0 /\ rvectors = <<>>
    /\ rvocabulary = <<>> /\ rqueryVector = <<>> /\ rsimilarities = <<>>
    /\ rresult = <<>> /\ rpc = "idle"

AnswerIdle ==
    /\ gquery = <<>> /\ gdocs = <<>> /\ gidx = 0 /\ allRelevantChunks = <<>>
    /\ topChunks = <<>> /\ gcontext = <<>> /\ gcalls = 0
    /\ gresult = [answer |-> "", sources |-> <<>>, confidence |-> [nan |-> FALSE, v |-> 0]]
    /\ gerror = "none" /\ gmismatch = FALSE /\ gpc = "idle"

TextIdle ==
    /\ sword = <<>> /\ sresult = <<>> /\ ptext = <<>> /\ stemmed = <<>> /\ tpc = "idle"

ChatIdle ==
    /\ input = <<>> /\ isLoading = FALSE /\ anyReady = FALSE /\ authUp = TRUE
    /\ messages = <<>> /\ invoked = 0 /\ hpc = <<>> /\ hinput = <<>>
    /\ hdocs = <<>>

UploadIdle ==
    /\ ufile = [pdf |-> FALSE, chunks |-> 0] /\ upc = "idle" /\ isUploading = FALSE
    /\ inStorage = FALSE /\ dbDocuments = {} /\ dbChunks = {} /\ chunkPromises = {}
    /\ uploaded = FALSE /\ alerted = FALSE

-----------------------------------------------------------------------------
(* Bounds of the model *)

\* longest text handed to chunkText, in characters
MaxTextLen == 4
\* largest chunkSize argument
MaxChunkSize == 3
\* largest overlap argument
MaxOverlap == 2
\* loop bodies of chunkText that are followed (a loop that never ends is cut here)
MaxIter == 6
\* most chunks of one document
MaxChunks == 3
\* largest topK argument of findRelevantChunks
MaxTopK == 2
\* most documents handed to generateAIResponse
MaxDocs == 2
\* most filler letters in front of the ending of a word handed to simpleStem
MaxStemPrefix == 3
\* most words of a text handed to preprocessText
MaxTextWords == 2
\* most calls of handleSendMessage
MaxCalls == 2
\* most chunks processPDF makes of a file
MaxUploadChunks == 4
\* most words of the text processPDF extracts
MaxPdfWords == 3

-----------------------------------------------------------------------------
(* Strings *)

Min(a, b) == IF a < b THEN a ELSE b
Max(a, b) == IF a > b THEN a ELSE b

\* characters of the texts handed to chunkText
ChunkAlphabet == {" ", "a", "b"}

\* \s of the regular expressions
IsSpace(c) == c \in {" ", "\n", "\t"}

\* String.prototype.split(/\s+/): the pieces between maximal runs of
\* whitespace; a leading or trailing run leaves an empty piece, and the empty
\* string splits into one empty piece.
SplitWS(s) ==
    LET RECURSIVE go(_, _, _)
        go(k, cur, acc) ==
            IF k > Len(s) THEN Append(acc, cur)
            ELSE IF IsSpace(s[k])
                 THEN IF k > 1 /\ IsSpace(s[k-1])
                      THEN go(k + 1, cur, acc)
                      ELSE go(k + 1, <<>>, Append(acc, cur))
                 ELSE go(k + 1, Append(cur, s[k]), acc)
    IN go(1, <<>>, <<>>)

\* Array.prototype.slice(start, end) with the source's 0-based arguments:
\* a negative argument counts from the end of the array.
JsSlice(a, start, end) ==
    LET n    == Len(a)
        from == IF start < 0 THEN Max(n + start, 0) ELSE Min(start, n)
        to   == IF end < 0 THEN Max(n + end, 0) ELSE Min(end, n)
    IN IF from >= to THEN <<>> ELSE SubSeq(a, from + 1, to)

\* Array.prototype.join(sep)
RECURSIVE Join(_, _)
Join(ws, sep) ==
    IF Len(ws) = 0 THEN <<>>
    ELSE IF Len(ws) = 1 THEN ws[1]
    ELSE ws[1] \o sep \o Join(Tail(ws), sep)

\* String.prototype.trim()
RECURSIVE TrimStart(_)
TrimStart(s) ==
    IF Len(s) > 0 /\ IsSpace(s[1]) THEN TrimStart(Tail(s)) ELSE s

RECURSIVE TrimEnd(_)
TrimEnd(s) ==
    IF Len(s) > 0 /\ IsSpace(s[Len(s)])
    THEN TrimEnd(SubSeq(s, 1, Len(s) - 1)) ELSE s

Trim(s) == TrimEnd(TrimStart(s))

\* all sequences over S of length 0..n
SeqsUpTo(S, n) == UNION {[1..k -> S] : k \in 0..n}

-----------------------------------------------------------------------------
(* chunkText *)

\* the state at the call of chunkText
InitChunk ==
    /\ text \in SeqsUpTo(ChunkAlphabet, MaxTextLen)
    /\ chunkSize \in 1..MaxChunkSize
    /\ overlap \in 0..MaxOverlap
    /\ words = <<>>
    /\ i = 0
    /\ chunks = <<>>
    /\ cpc = "call"
    /\ cerror = "none"
    /\ iter = 0
    /\ RankIdle
    /\ AnswerIdle
    /\ TextIdle
    /\ ChatIdle
    /\ UploadIdle

\* const words = text.split(/\s+/); const chunks = []; let i = 0
ChunkSplit ==
    /\ cpc = "call"
    /\ words' = SplitWS(text)
    /\ chunks' = <<>>
    /\ i' = 0
    /\ cpc' = "loop"
    /\ UNCHANGED <<text, chunkSize, overlap, cerror, iter, rankVars, answerVars, textVars, chatVars, uploadVars>>

\* words.slice(i, i + chunkSize).join(' ')
ChunkAt(ws, k, size) == Join(JsSlice(ws, k, k + size), <<" ">>)

\* chunks after one loop body at counter k
ChunkPush(cs, ws, k, size) ==
    LET chunk == ChunkAt(ws, k, size)
    IN IF Len(Trim(chunk)) > 0 THEN Append(cs, Trim(chunk)) ELSE cs

\* one loop body, then i += chunkSize - overlap
ChunkLoop ==
    /\ cpc = "loop"
    /\ i < Len(words)
    /\ iter < MaxIter
    /\ chunks' = ChunkPush(chunks, words, i, chunkSize)
    /\ i' = i + chunkSize - overlap
    /\ iter' = iter + 1
    /\ UNCHANGED <<text, chunkSize, overlap, words, cpc, cerror, rankVars, answerVars, textVars, chatVars, uploadVars>>

\* the loop condition fails: return chunks
ChunkReturn ==
    /\ cpc = "loop"
    /\ ~(i < Len(words))
    /\ cpc' = "returned"
    /\ UNCHANGED <<text, chunkSize, overlap, words, i, chunks, cerror, iter, rankVars, answerVars, textVars, chatVars, uploadVars>>

NextChunk == ChunkSplit \/ ChunkLoop \/ ChunkReturn

SpecChunk == InitChunk /\ [][NextChunk]_vars

-----------------------------------------------------------------------------
(* Claims about chunkText *)

\* C1: whenever overlap >= chunkSize, chunkText raises InvalidConfiguration
\* and executes no loop body.
C1_BadConfigRaises ==
    (overlap >= chunkSize /\ cpc # "call")
        => (cpc = "raised" /\ cerror = "InvalidConfiguration" /\ iter = 0)

\* the words of a text: its maximal runs of non-whitespace characters
RealWords(s) == SelectSeq(SplitWS(s), LAMBDA w : Len(w) > 0)

\* the first n elements of a sequence
Take(a, n) == SubSeq(a, 1, Min(n, Len(a)))

\* the non-overlapping portions of the chunks, concatenated: the first
\* (chunkSize - overlap) words of every chunk (the last chunk holds at most
\* that many words when it starts inside the word sequence)
RECURSIVE Reconstruct(_, _)
Reconstruct(cs, step) ==
    IF Len(cs) = 0 THEN <<>>
    ELSE Take(RealWords(cs[1]), step) \o Reconstruct(Tail(cs), step)

\* C10: for chunkSize > overlap >= 0 the non-overlapping portions of the
\* returned chunks, concatenated in order, are the word sequence of the text.
C10_Reconstructs ==
    (cpc = "returned" /\ chunkSize > overlap)
        => Reconstruct(chunks, chunkSize - overlap) = RealWords(text)

-----------------------------------------------------------------------------
(* Text normalisation: STOPWORDS, simpleStem, preprocessText *)

LowerLetters ==
    <<"a", "b", "c", "d", "e", "f", "g", "h", "i", "j", "k", "l", "m", "n",
      "o", "p", "q", "r", "s", "t", "u", "v", "w", "x", "y", "z">>
UpperLetters ==
    <<"A", "B", "C", "D", "E", "F", "G", "H", "I", "J", "K", "L", "M", "N",
      "O", "P", "Q", "R", "S", "T", "U", "V", "W", "X", "Y", "Z">>
Digits == {"0", "1", "2", "3", "4", "5", "6", "7", "8", "9"}

Range(f) == {f[k] : k \in DOMAIN f}

\* String.prototype.toLowerCase, one character
ToLowerChar(c) ==
    IF \E k \in 1..Len(UpperLetters) : UpperLetters[k] = c
    THEN LowerLetters[CHOOSE k \in 1..Len(UpperLetters) : UpperLetters[k] = c]
    ELSE c

ToLower(s) == [k \in 1..Len(s) |-> ToLowerChar(s[k])]

\* \w of the regular expressions
IsWordChar(c) == c \in Range(LowerLetters) \cup Range(UpperLetters) \cup Digits \cup {"_"}

\* text.toLowerCase().replace(/[^\w\s]/g, ' ')
Cleaned(s) ==
    [k \in 1..Len(s) |->
        LET c == ToLowerChar(s[k])
        IN IF IsWordChar(c) \/ IsSpace(c) THEN c ELSE " "]

STOPWORDS == {
    <<"a">>, <<"a","n">>, <<"a","n","d">>, <<"a","r","e">>, <<"a","s">>,
    <<"a","t">>, <<"b","e">>, <<"b","y">>, <<"f","o","r">>,
    <<"f","r","o","m">>, <<"h","a","s">>, <<"h","e">>, <<"i","n">>,
    <<"i","s">>, <<"i","t">>, <<"i","t","s">>, <<"o","f">>, <<"o","n">>,
    <<"t","h","a","t">>, <<"t","h","e">>, <<"t","o">>, <<"w","a","s">>,
    <<"w","i","l","l">>, <<"w","i","t","h">>, <<"t","h","e">>,
    <<"t","h","i","s">>, <<"b","u","t">>, <<"t","h","e","y">>,
    <<"h","a","v","e">>, <<"h","a","d">>, <<"w","h","a","t">>,
    <<"s","a","i","d">>, <<"e","a","c","h">>, <<"w","h","i","c","h">>,
    <<"s","h","e">>, <<"d","o">>, <<"h","o","w">>, <<"t","h","e","i","r">>,
    <<"i","f">>, <<"u","p">>, <<"o","u","t">>, <<"m","a","n","y">>,
    <<"t","h","e","n">>, <<"t","h","e","m">>, <<"t","h","e","s","e">>,
    <<"s","o">>, <<"s","o","m","e">>, <<"h","e","r">>,
    <<"w","o","u","l","d">>, <<"m","a","k","e">>, <<"l","i","k","e">>,
    <<"i","n","t","o">>, <<"h","i","m">>, <<"t","i","m","e">>,
    <<"t","w","o">>, <<"m","o","r","e">>, <<"g","o">>, <<"n","o">>,
    <<"w","a","y">>, <<"c","o","u","l","d">>, <<"m","y">>,
    <<"t","h","a","n">>, <<"f","i","r","s","t">>, <<"b","e","e","n">>,
    <<"c","a","l","l">>, <<"w","h","o">>, <<"o","i","l">>, <<"s","i","t">>,
    <<"n","o","w">>, <<"f","i","n","d">>, <<"d","o","w","n">>,
    <<"d","a","y">>, <<"d","i","d">>, <<"g","e","t">>, <<"c","o","m","e">>,
    <<"m","a","d","e">>, <<"m","a","y">>, <<"p","a","r","t">>
}

\* String.prototype.endsWith
EndsWith(w, suf) ==
    /\ Len(w) >= Len(suf)
    /\ SubSeq(w, Len(w) - Len(suf) + 1, Len(w)) = suf

\* word.slice(0, -n)
DropLast(w, n) == JsSlice(w, 0, 0 - n)

simpleStem(word0) ==
    LET word == ToLower(word0)
    IN IF EndsWith(word, <<"i", "e", "s">>) THEN DropLast(word, 3) \o <<"y">>
       ELSE IF EndsWith(word, <<"i", "e", "d">>) THEN DropLast(word, 3) \o <<"y">>
       ELSE IF EndsWith(word, <<"s">>) /\ Len(word) > 3 /\ ~EndsWith(word, <<"s", "s">>)
            THEN DropLast(word, 1)
       ELSE IF EndsWith(word, <<"e", "d">>) /\ Len(word) > 4 THEN DropLast(word, 2)
       ELSE IF EndsWith(word, <<"i", "n", "g">>) /\ Len(word) > 5 THEN DropLast(word, 3)
       ELSE IF EndsWith(word, <<"l", "y">>) /\ Len(word) > 4 THEN DropLast(word, 2)
       ELSE IF EndsWith(word, <<"e", "r">>) /\ Len(word) > 4 THEN DropLast(word, 2)
       ELSE IF EndsWith(word, <<"e", "s", "t">>) /\ Len(word) > 5 THEN DropLast(word, 3)
       ELSE word

\* preprocessText without the two filters: every token is stemmed and kept
preprocessTextUnfiltered(s) ==
    LET tokens == SplitWS(Cleaned(s))
    IN [k \in 1..Len(tokens) |-> simpleStem(tokens[k])]

preprocessText(s) ==
    LET cleaned          == Cleaned(s)
        tokens           == SelectSeq(SplitWS(cleaned), LAMBDA t : Len(t) > 0)
        withoutStopwords == SelectSeq(tokens, LAMBDA t : t \notin STOPWORDS /\ Len(t) > 2)
    IN [k \in 1..Len(withoutStopwords) |-> simpleStem(withoutStopwords[k])]

-----------------------------------------------------------------------------
(* Numbers                                                                 *)
(* A JavaScript number is modelled as a record: NaN, or a fixed-point      *)
(* value v standing for v / Scale.  Sums of products inside                *)
(* cosineSimilarity are kept exactly, in units of 1 / Scale^2, so that the *)
(* test `norm === 0` is decided as the source decides it.                  *)

\* resolution of the fixed-point numbers
Scale == 10 * 10 * 10

NaN == [nan |-> TRUE, v |-> 0]
Num(n) == [nan |-> FALSE, v |-> n]

\* an integer of the source (a count, a length) as a number
FromInt(n) == Num(n * Scale)

\* a / b; 0 / 0 is NaN (a non-zero dividend over 0 does not occur: a
\* token list of length 0 holds 0 occurrences of every term)
FDiv(a, b) ==
    IF a.nan \/ b.nan \/ b.v = 0 THEN NaN
    ELSE Num((a.v * Scale) \div b.v)

\* a * b; NaN * 0 is NaN
FMul(a, b) ==
    IF a.nan \/ b.nan THEN NaN ELSE Num((a.v * b.v) \div Scale)

\* Math.log of the integers 1..12, times Scale, rounded
LnTable == <<0, 693, 1099, 1386, 1609, 1792, 1946, 2079, 2197, 2303, 2398, 2485>>

\* Math.log(n / d) for integers n >= d >= 1: exactly 0 when n = d
FLogRatio(n, d) == Num(LnTable[n] - LnTable[d])

\* a > b of the source: false when either side is NaN
FGreater(a, b) == ~a.nan /\ ~b.nan /\ a.v > b.v

\* a === 0
FIsZero(a) == ~a.nan /\ a.v = 0

\* floor of the square root of n >= 0
ISqrt(n) ==
    LET RECURSIVE search(_, _)
        search(lo, hi) ==
            IF lo >= hi THEN lo
            ELSE LET mid == (lo + hi + 1) \div 2
                 IN IF mid * mid <= n THEN search(mid, hi) ELSE search(lo, mid - 1)
    IN search(0, Min(n, 46340))

\* number of elements of a sequence equal to x
Count(s, x) == Cardinality({k \in 1..Len(s) : s[k] = x})

\* Array.prototype.includes
Includes(s, x) == \E k \in 1..Len(s) : s[k] = x

-----------------------------------------------------------------------------
(* calculateTFIDF *)

\* Distinct without the Set: every occurrence is kept
Undeduplicated(s) == s

\* Array.from(new Set(tokens)): the distinct elements in first-seen order
RECURSIVE Distinct(_)
Distinct(s) ==
    IF Len(s) = 0 THEN <<>>
    ELSE LET front == Distinct(SubSeq(s, 1, Len(s) - 1))
             last  == s[Len(s)]
         IN IF Includes(front, last) THEN front ELSE Append(front, last)

\* Array.prototype.flat of an array of arrays
RECURSIVE Flat(_)
Flat(ss) == IF Len(ss) = 0 THEN <<>> ELSE ss[1] \o Flat(Tail(ss))

\* processedDocs of calculateTFIDF
ProcessedDocs(documents) ==
    [k \in 1..Len(documents) |-> preprocessText(documents[k])]

\* doc.filter(token => token === term).length / doc.length
TermFrequency(doc, term) == FDiv(FromInt(Count(doc, term)), FromInt(Len(doc)))

\* InverseDocFrequency smoothed: Math.log((processedDocs.length + 1) / ...)
InverseDocFrequencySmoothed(processedDocs, term) ==
    LET docsWithTerm ==
            Cardinality({k \in 1..Len(processedDocs) : Includes(processedDocs[k], term)})
    IN FLogRatio(Len(processedDocs) + 1, IF docsWithTerm = 0 THEN 1 ELSE docsWithTerm)

\* Math.log(processedDocs.length / (docsWithTerm || 1))
InverseDocFrequency(processedDocs, term) ==
    LET docsWithTerm ==
            Cardinality({k \in 1..Len(processedDocs) : Includes(processedDocs[k], term)})
    IN FLogRatio(Len(processedDocs), IF docsWithTerm = 0 THEN 1 ELSE docsWithTerm)

\* one component of a chunk's vector: tf * idf
TfIdfWeight(doc, processedDocs, term) ==
    FMul(TermFrequency(doc, term), InverseDocFrequency(processedDocs, term))

calculateTFIDF(documents) ==
    LET processedDocs == ProcessedDocs(documents)
        vocabulary    == Distinct(Flat(processedDocs))
    IN [vectors |->
            [d \in 1..Len(processedDocs) |->
                [t \in 1..Len(vocabulary) |->
                    TfIdfWeight(processedDocs[d], processedDocs, vocabulary[t])]],
        vocabulary |-> vocabulary]

-----------------------------------------------------------------------------
(* cosineSimilarity *)

\* the sum of a[k] * b[k], in units of 1 / Scale^2; NaN once a term is NaN
RECURSIVE SumProducts(_, _, _)
SumProducts(a, b, k) ==
    IF k = 0 THEN Num(0)
    ELSE LET rest == SumProducts(a, b, k - 1)
         IN IF rest.nan \/ a[k].nan \/ b[k].nan THEN NaN
            ELSE Num(rest.v + a[k].v * b[k].v)

\* cosineSimilarity without the test of the lengths: the loop runs over vecA
\* and reads undefined, hence computes NaN, past the end of vecB
cosineSimilarityUnguarded(vecA, vecB) ==
    LET n          == Len(vecA)
        b          == [k \in 1..n |-> IF k <= Len(vecB) THEN vecB[k] ELSE NaN]
        dotProduct == SumProducts(vecA, b, n)
        normA      == SumProducts(vecA, vecA, n)
        normB      == SumProducts(b, b, n)
    IN IF FIsZero(normA) \/ FIsZero(normB) THEN Num(0)
       ELSE IF dotProduct.nan \/ normA.nan \/ normB.nan THEN NaN
       ELSE Num((dotProduct.v * Scale) \div (ISqrt(normA.v) * ISqrt(normB.v)))

\* cosineSimilarity without the test of the norms: a zero norm divides
\* 0 by 0, which is NaN
cosineSimilarityNoZeroTest(vecA, vecB) ==
    IF Len(vecA) # Len(vecB) THEN Num(0)
    ELSE LET dotProduct == SumProducts(vecA, vecB, Len(vecA))
             normA      == SumProducts(vecA, vecA, Len(vecA))
             normB      == SumProducts(vecB, vecB, Len(vecA))
         IN IF dotProduct.nan \/ normA.nan \/ normB.nan THEN NaN
            ELSE IF FIsZero(normA) \/ FIsZero(normB) THEN NaN
            ELSE Num((dotProduct.v * Scale) \div (ISqrt(normA.v) * ISqrt(normB.v)))

cosineSimilarity(vecA, vecB) ==
    IF Len(vecA) # Len(vecB) THEN Num(0)
    ELSE LET dotProduct == SumProducts(vecA, vecB, Len(vecA))
             normA      == SumProducts(vecA, vecA, Len(vecA))
             normB      == SumProducts(vecB, vecB, Len(vecA))
         IN IF FIsZero(normA) \/ FIsZero(normB) THEN Num(0)
            ELSE IF dotProduct.nan \/ normA.nan \/ normB.nan THEN NaN
            ELSE Num((dotProduct.v * Scale) \div (ISqrt(normA.v) * ISqrt(normB.v)))

-----------------------------------------------------------------------------
(* findRelevantChunks *)

\* the query vector: raw term frequency of every vocabulary term
QueryVector(query, vocabulary) ==
    LET queryTokens == preprocessText(query)
    IN [t \in 1..Len(vocabulary) |-> TermFrequency(queryTokens, vocabulary[t])]

\* chunks[index]: undefined (here the string "undefined") past the end
ChunkOrUndefined(cs, k) ==
    IF k \in 1..Len(cs) THEN cs[k] ELSE <<"u", "n", "d", "e", "f", "i", "n", "e", "d">>

\* vectors.map((vector, index) => ({chunk, score, index})); index is 0-based
Similarities(query, cs, vectors, vocabulary) ==
    LET queryVector == QueryVector(query, vocabulary)
    IN [k \in 1..Len(vectors) |->
            [chunk |-> ChunkOrUndefined(cs, k),
             score |-> cosineSimilarity(queryVector, vectors[k]),
             index |-> k - 1]]

\* a stable sort by descending score: every element is inserted behind the
\* elements that do not score less
RECURSIVE StableSortDesc(_)
StableSortDesc(s) ==
    IF Len(s) = 0 THEN <<>>
    ELSE LET front == StableSortDesc(SubSeq(s, 1, Len(s) - 1))
             x     == s[Len(s)]
             keep  == Cardinality({k \in 1..Len(front) : front[k].score.v >= x.score.v})
         IN SubSeq(front, 1, keep) \o <<x>> \o SubSeq(front, keep + 1, Len(front))

\* Array.prototype.sort((a, b) => b.score - a.score).  The sort is stable.
\* With a NaN score the comparator is not a consistent comparison function
\* (it answers NaN, taken as 0, for every pair with that element), and the
\* order of the result is then implementation-defined: any permutation.
SortOutcomes(s) ==
    IF \E k \in 1..Len(s) : s[k].score.nan
    THEN {[k \in 1..Len(s) |-> s[p[k]]] : p \in Permutations(1..Len(s))}
    ELSE {StableSortDesc(s)}

\* the relevance floor 0.05
RelevanceFloor == Num((5 * Scale) \div 100)

\* TopKAboveFloor without the filter
TopKUnfiltered(sorted, topK) == JsSlice(sorted, 0, topK)

\* .slice(0, topK).filter(item => item.score > 0.05)
TopKAboveFloor(sorted, topK) ==
    SelectSeq(JsSlice(sorted, 0, topK), LAMBDA item : FGreater(item.score, RelevanceFloor))

\* the results findRelevantChunks can return
findRelevantChunks(query, cs, vectors, vocabulary, topK) ==
    {TopKAboveFloor(sorted, topK) :
        sorted \in SortOutcomes(Similarities(query, cs, vectors, vocabulary))}

-----------------------------------------------------------------------------
(* Indexing and ranking one document: calculateTFIDF on its chunk texts    *)
(* (as handleSendMessage does before every query), then                    *)
(* findRelevantChunks                                                      *)

SampleThe      == <<"t", "h", "e">>
SampleCats     == <<"c", "a", "t", "s">>
SampleDogs     == <<"d", "o", "g", "s">>
SampleCatsDogs == <<"C", "a", "t", "s", ",", " ", "d", "o", "g", "s", "!">>
SampleCatsCatDogs ==
    <<"c", "a", "t", "s", " ", "c", "a", "t", " ", "d", "o", "g", "s">>
SampleBirds    == <<"b", "i", "r", "d", "s">>
SampleAAA      == <<"a", " ", "a", " ", "a">>

\* the chunk texts documents are made of
ChunkTexts ==
    {SampleThe, SampleCats, SampleDogs, SampleCatsDogs, SampleCatsCatDogs, SampleAAA}

\* the queries asked
Queries == {SampleThe, SampleCats, SampleCatsDogs, SampleBirds}

InitRank ==
    /\ rchunks \in SeqsUpTo(ChunkTexts, MaxChunks)
    /\ rquery \in Queries
    /\ rtopK \in 0..MaxTopK
    /\ rvectors = <<>>
    /\ rvocabulary = <<>>
    /\ rqueryVector = <<>>
    /\ rsimilarities = <<>>
    /\ rresult = <<>>
    /\ rpc = "call"
    /\ ChunkIdle
    /\ AnswerIdle
    /\ TextIdle
    /\ ChatIdle
    /\ UploadIdle

\* const { vectors, vocabulary } = calculateTFIDF(chunkTexts)
RankIndex ==
    /\ rpc = "call"
    /\ LET built == calculateTFIDF(rchunks)
       IN /\ rvectors' = built.vectors
          /\ rvocabulary' = built.vocabulary
    /\ rpc' = "indexed"
    /\ UNCHANGED <<rchunks, rquery, rtopK, rqueryVector, rsimilarities, rresult, chunkVars, answerVars, textVars, chatVars, uploadVars>>

\* findRelevantChunks(query, chunks, vectors, vocabulary, topK)
RankFind ==
    /\ rpc = "indexed"
    /\ rqueryVector' = QueryVector(rquery, rvocabulary)
    /\ rsimilarities' = Similarities(rquery, rchunks, rvectors, rvocabulary)
    /\ rresult' \in findRelevantChunks(rquery, rchunks, rvectors, rvocabulary, rtopK)
    /\ rpc' = "returned"
    /\ UNCHANGED <<rchunks, rquery, rtopK, rvectors, rvocabulary, chunkVars, answerVars, textVars, chatVars, uploadVars>>

NextRank == RankIndex \/ RankFind

SpecRank == InitRank /\ [][NextRank]_vars

-----------------------------------------------------------------------------
(* Claims about calculateTFIDF and findRelevantChunks *)

\* C2: once the document is indexed, a chunk that normalises to zero tokens,
\* in a corpus with a non-empty vocabulary, has a vector whose every
\* component is the number 0 (not NaN).
C2_EmptyChunkZeroVector ==
    rpc \in {"indexed", "returned"} =>
        \A d \in 1..Len(rchunks) :
            (preprocessText(rchunks[d]) = <<>> /\ Len(rvocabulary) > 0)
                => \A t \in 1..Len(rvocabulary) : rvectors[d][t] = Num(0)

\* C3: when the query normalises to zero tokens, every component of the
\* query vector is 0, the similarity against every chunk is 0 and the result
\* is empty.
C3_EmptyQueryScoresZero ==
    (rpc = "returned" /\ preprocessText(rquery) = <<>>) =>
        /\ \A t \in 1..Len(rqueryVector) : rqueryVector[t] = Num(0)
        /\ \A k \in 1..Len(rsimilarities) : rsimilarities[k].score = Num(0)
        /\ rresult = <<>>

\* a score strictly greater than 0.05
AboveFloor(score) == ~score.nan /\ score.v * 100 > 5 * Scale

\* C5: every returned chunk is a chunk of the document with its own score,
\* that score is strictly greater than 0.05, and at most topK chunks are
\* returned.
C5_AboveFloorAtMostTopK ==
    rpc = "returned" =>
        /\ Len(rresult) <= rtopK
        /\ \A k \in 1..Len(rresult) :
              /\ AboveFloor(rresult[k].score)
              /\ rresult[k] \in Range(rsimilarities)

\* C5's case: fewer than topK chunks are returned while a chunk scoring at
\* most 0.05 was left out.
C5_Witness ==
    /\ rpc = "returned"
    /\ 0 < Len(rresult)
    /\ Len(rresult) < rtopK
    /\ \E k \in 1..Len(rsimilarities) :
          ~rsimilarities[k].score.nan /\ ~AboveFloor(rsimilarities[k].score)

\* the specified procedure: sort by descending score, ties in chunk order;
\* remove the scores <= 0.05; keep the first topK.  (The specified procedure
\* scores a chunk without tokens 0; a NaN score ranks as 0 here and is
\* removed with the scores below the floor.)
SpecifiedRanking(similarities, topK) ==
    Take(SelectSeq(StableSortDesc(similarities), LAMBDA item : AboveFloor(item.score)),
         topK)

\* C6: findRelevantChunks returns what the specified procedure returns.
C6_SameAsSpecifiedProcedure ==
    rpc = "returned" => rresult = SpecifiedRanking(rsimilarities, rtopK)

-----------------------------------------------------------------------------
(* generateAIResponse *)

\* the topK generateAIResponse passes to findRelevantChunks
PerDocTopK == 3
\* the number of chunks kept over all documents
GlobalTopK == 5
\* the cap of the confidence, in percent
ConfidenceCap == 95

\* a document as handleSendMessage builds it: the stored chunk texts with
\* the vectors and the vocabulary calculateTFIDF derives from them
IndexedDoc(id, chunkTexts) ==
    LET built == calculateTFIDF(chunkTexts)
    IN [id |-> id, filename |-> id, chunks |-> chunkTexts,
        vectors |-> built.vectors, vocabulary |-> built.vocabulary]

SampleSample   == <<"s", "a", "m", "p", "l", "e">>
SampleContent  == <<"c", "o", "n", "t", "e", "n", "t">>
SampleDocument == <<"d", "o", "c", "u", "m", "e", "n", "t">>
SampleSampleContent == SampleSample \o <<" ">> \o SampleContent
FallbackChunk ==
    <<"C", "o", "n", "t", "e", "n", "t", " ", "f", "r", "o", "m", " ", "f",
      "a", "l", "l", "b", "a", "c", "k", ".", "p", "d", "f", " ", "-", " ",
      "p", "l", "e", "a", "s", "e", " ", "r", "e", "-", "u", "p", "l", "o",
      "a", "d", " ", "t", "h", "i", "s", " ", "d", "o", "c", "u", "m", "e",
      "n", "t", " ", "f", "o", "r", " ", "b", "e", "t", "t", "e", "r", " ",
      "r", "e", "s", "u", "l", "t", "s", ".">>

\* the document handleSendMessage substitutes when the chunks of a document
\* cannot be loaded
FallbackDoc ==
    [id |-> "fallback.pdf", filename |-> "fallback.pdf",
     chunks |-> <<FallbackChunk>>,
     vectors |-> <<<<Num(Scale \div 10), Num((2 * Scale) \div 10), Num((3 * Scale) \div 10)>>>>,
     vocabulary |-> <<SampleSample, SampleContent, SampleDocument>>]

\* a document whose vectors were built against another vocabulary (three
\* terms) than the one handed over with them (two terms): the contract
\* violation of the caller that cosineSimilarity's length test is for
StaleDoc ==
    [id |-> "stale.pdf", filename |-> "stale.pdf",
     chunks |-> <<SampleCats, SampleDogs>>,
     vectors |-> <<<<Num(Scale), Num(0), Num(0)>>, <<Num(0), Num(Scale), Num(0)>>>>,
     vocabulary |-> <<<<"c", "a", "t">>, <<"d", "o", "g">>>>]

\* the documents a call can be handed
DocPool ==
    { IndexedDoc("a.pdf", <<SampleCats, SampleCatsCatDogs, SampleCatsDogs, SampleDogs>>),
      IndexedDoc("b.pdf", <<SampleCatsDogs, SampleCats, SampleCatsCatDogs, SampleBirds>>),
      IndexedDoc("the.pdf", <<SampleThe, SampleCats, SampleDogs>>),
      IndexedDoc("one.pdf", <<SampleCats>>),
      FallbackDoc,
      StaleDoc }

\* the queries a call can be handed
AnswerQueries == {SampleThe, SampleCats, SampleCatsDogs, SampleSampleContent}

\* the state at the call of generateAIResponse(query, documents)
InitAnswer ==
    /\ gquery \in AnswerQueries
    /\ gdocs \in {ds \in SeqsUpTo(DocPool, MaxDocs) :
                    \A a, b \in 1..Len(ds) : a # b => ds[a].id # ds[b].id}
    /\ gidx = 0
    /\ allRelevantChunks = <<>>
    /\ topChunks = <<>>
    /\ gcontext = <<>>
    /\ gcalls = 0
    /\ gresult = [answer |-> "", sources |-> <<>>, confidence |-> Num(0)]
    /\ gerror = "none"
    /\ gmismatch = FALSE
    /\ gpc = "loop"
    /\ ChunkIdle
    /\ RankIdle
    /\ TextIdle
    /\ ChatIdle
    /\ UploadIdle

\* relevantChunks.forEach(chunk => allRelevantChunks.push({...}))
Tagged(relevantChunks, doc) ==
    [k \in 1..Len(relevantChunks) |->
        [chunk |-> relevantChunks[k].chunk, score |-> relevantChunks[k].score,
         documentId |-> doc.id, documentName |-> doc.filename]]

\* findRelevantChunks compares the query vector, as long as the vocabulary,
\* with every vector of the document
ComparesUnequalLengths(doc) ==
    \E k \in 1..Len(doc.vectors) : Len(doc.vectors[k]) # Len(doc.vocabulary)

\* one pass of: for (const doc of documents) { ... }
AnswerLoop ==
    /\ gpc = "loop"
    /\ gidx < Len(gdocs)
    /\ LET doc == gdocs[gidx + 1]
       IN /\ \E relevantChunks \in
                 findRelevantChunks(gquery, doc.chunks, doc.vectors, doc.vocabulary, PerDocTopK) :
                 allRelevantChunks' = allRelevantChunks \o Tagged(relevantChunks, doc)
          /\ gmismatch' = (gmismatch \/ ComparesUnequalLengths(doc))
    /\ gidx' = gidx + 1
    /\ UNCHANGED <<gquery, gdocs, topChunks, gcontext, gcalls, gresult, gerror, gpc,
                   chunkVars, rankVars, textVars, chatVars, uploadVars>>

\* TopChunks without the sort
TopChunksUnsorted(all) == JsSlice(all, 0, GlobalTopK)

\* allRelevantChunks.sort((a, b) => b.score - a.score).slice(0, 5); every
\* score is above the floor, so no score is NaN and the sort is the stable one
TopChunks(all) == JsSlice(StableSortDesc(all), 0, GlobalTopK)

\* NoneRelevant without the test
NeverNoneRelevant(top) == FALSE

\* topChunks.length === 0
NoneRelevant(top) == Len(top) = 0

\* the response of the early return
NoInformation ==
    [answer |-> "I couldn't find relevant information in the uploaded documents to answer your question. Please try rephrasing your question or upload more relevant documents.",
     sources |-> <<>>,
     confidence |-> Num(0)]

\* Context with the array index as the label: `[Source ${index}]`
ContextZeroBased(top) == [k \in 1..Len(top) |-> [label |-> k - 1, chunk |-> top[k].chunk]]

\* topChunks.map((chunk, index) => `[Source ${index + 1}]: ${chunk.chunk}`)
Context(top) == [k \in 1..Len(top) |-> [label |-> k, chunk |-> top[k].chunk]]

\* the loop is over: sort, truncate, and either return the "no information"
\* response or build the context and call blink.ai.generateText
AnswerMerge ==
    /\ gpc = "loop"
    /\ gidx = Len(gdocs)
    /\ LET top == TopChunks(allRelevantChunks)
       IN /\ topChunks' = top
          /\ IF NoneRelevant(top)
             THEN /\ gresult' = NoInformation
                  /\ gpc' = "returned"
                  /\ UNCHANGED <<gcontext, gcalls>>
             ELSE /\ gcontext' = Context(top)
                  /\ gcalls' = gcalls + 1
                  /\ gpc' = "awaiting"
                  /\ UNCHANGED gresult
    /\ UNCHANGED <<gquery, gdocs, gidx, allRelevantChunks, gerror, gmismatch,
                   chunkVars, rankVars, textVars, chatVars, uploadVars>>

\* topChunks.reduce((sum, chunk) => sum + chunk.score, 0)
RECURSIVE SumScores(_)
SumScores(top) ==
    IF Len(top) = 0 THEN Num(0)
    ELSE LET rest == SumScores(SubSeq(top, 1, Len(top) - 1))
             last == top[Len(top)].score
         IN IF rest.nan \/ last.nan THEN NaN ELSE Num(rest.v + last.v)

\* Math.min(a, b): NaN when either is NaN
FMin(a, b) == IF a.nan \/ b.nan THEN NaN ELSE Num(Min(a.v, b.v))

\* Math.min(avgScore * 100, 95) without the cap
ConfidenceUncapped(top) ==
    FMul(FDiv(SumScores(top), FromInt(Len(top))), FromInt(100))

\* avgScore = sum / topChunks.length; Math.min(avgScore * 100, 95)
Confidence(top) ==
    LET avgScore == FDiv(SumScores(top), FromInt(Len(top)))
    IN FMin(FMul(avgScore, FromInt(100)), FromInt(ConfidenceCap))

\* generateText resolves: compute the confidence and return
AnswerResolve ==
    /\ gpc = "awaiting"
    /\ gresult' = [answer |-> "text", sources |-> topChunks,
                   confidence |-> Confidence(topChunks)]
    /\ gpc' = "returned"
    /\ UNCHANGED <<gquery, gdocs, gidx, allRelevantChunks, topChunks, gcontext, gcalls,
                   gerror, gmismatch, chunkVars, rankVars, textVars, chatVars, uploadVars>>

\* generateText rejects: the catch block throws a new Error
AnswerReject ==
    /\ gpc = "awaiting"
    /\ gerror' = "Failed to generate AI response. Please try again."
    /\ gpc' = "threw"
    /\ UNCHANGED <<gquery, gdocs, gidx, allRelevantChunks, topChunks, gcontext, gcalls,
                   gresult, gmismatch, chunkVars, rankVars, textVars, chatVars, uploadVars>>

Next == AnswerLoop \/ AnswerMerge \/ AnswerResolve \/ AnswerReject

Spec == InitAnswer /\ [][Next]_vars

-----------------------------------------------------------------------------
(* Claims about generateAIResponse *)

\* the for loop is over and the chunks are merged
Merged == gpc \in {"awaiting", "returned", "threw"}

MergedPlace(all, j) ==
    1 + Cardinality({m \in 1..Len(all) : all[m].score.v > all[j].score.v})
      + Cardinality({m \in 1..(j - 1) : all[m].score.v = all[j].score.v})

\* C7: the merged list holds at most 5 entries, in non-increasing order of
\* score whatever the order of the documents; every entry of the
\* concatenation stands at its place of the score order with ties in
\* concatenation order, unless that place is beyond 5; no omitted entry
\* scores more than a kept one.
C7_MergedByScore ==
    Merged =>
        /\ Len(topChunks) <= 5
        /\ Len(topChunks) = Min(5, Len(allRelevantChunks))
        /\ \A k \in 1..(Len(topChunks) - 1) :
              topChunks[k].score.v >= topChunks[k + 1].score.v
        /\ \A j \in 1..Len(allRelevantChunks) :
              IF MergedPlace(allRelevantChunks, j) <= 5
              THEN topChunks[MergedPlace(allRelevantChunks, j)] = allRelevantChunks[j]
              ELSE \A k \in 1..Len(topChunks) :
                      topChunks[k].score.v >= allRelevantChunks[j].score.v

\* C7's case: more than 5 entries were merged, two documents tie on a score,
\* and an entry of the second document stands before one of the first.
C7_Witness ==
    /\ Merged
    /\ Len(gdocs) = 2
    /\ Len(allRelevantChunks) > 5
    /\ \E k \in 1..(Len(topChunks) - 1) :
          /\ topChunks[k].score = topChunks[k + 1].score
          /\ topChunks[k].documentId = gdocs[1].id
          /\ topChunks[k + 1].documentId = gdocs[2].id
    /\ \E k \in 1..(Len(topChunks) - 1) :
          /\ topChunks[k].score.v > topChunks[k + 1].score.v
          /\ topChunks[k].documentId = gdocs[2].id
          /\ topChunks[k + 1].documentId = gdocs[1].id

\* C8: when no chunk of any document passes ranking, the call returns with
\* confidence 0 and no sources, has built no context, has not called the
\* generation service and has thrown nothing.
C8_NothingRelevant ==
    (Merged /\ allRelevantChunks = <<>>) =>
        /\ gpc = "returned"
        /\ gresult.sources = <<>>
        /\ gresult.confidence = Num(0)
        /\ gcontext = <<>>
        /\ gcalls = 0
        /\ gerror = "none"

\* C8's case: documents were searched and none of their chunks passed.
C8_Witness ==
    /\ gpc = "returned"
    /\ Len(gdocs) > 0
    /\ gidx = Len(gdocs)
    /\ allRelevantChunks = <<>>

\* the sum of the scores of a list of sources, in units of 1 / Scale
RECURSIVE ScoreTotal(_)
ScoreTotal(sources) ==
    IF Len(sources) = 0 THEN 0 ELSE sources[1].score.v + ScoreTotal(Tail(sources))

\* the mean score of a non-empty list of sources, times 100
MeanPercent(sources) == (ScoreTotal(sources) \div Len(sources)) * 100

\* C9: a returned non-empty source list comes with the confidence
\* min(mean score * 100, 95); no returned confidence exceeds 95.
C9_ConfidenceCapped ==
    gpc = "returned" =>
        /\ ~gresult.confidence.nan
        /\ gresult.confidence.v <= 95 * Scale
        /\ gresult.sources # <<>> =>
              gresult.confidence.v = Min(MeanPercent(gresult.sources), 95 * Scale)

\* C9's case: sources are returned whose mean score is above 0.95.
C9_Witness ==
    /\ gpc = "returned"
    /\ gresult.sources # <<>>
    /\ MeanPercent(gresult.sources) > 95 * Scale

-----------------------------------------------------------------------------
(* Further claims about chunkText *)

\* ceil(n / d) for n >= 0, d > 0
CeilDiv(n, d) == (n + d - 1) \div d

\* C11: for chunkSize > overlap >= 0 chunkText returns after exactly
\* ceil(wordCount / (chunkSize - overlap)) loop bodies, wordCount the number
\* of words of the text, and returns at most that many chunks.
C11_StepCount ==
    (cpc = "returned" /\ chunkSize > overlap) =>
        LET steps == CeilDiv(Len(RealWords(text)), chunkSize - overlap)
        IN iter = steps /\ Len(chunks) <= steps

-----------------------------------------------------------------------------
(* Further claims about calculateTFIDF *)

\* the tokens of chunk d of the indexed document
TokensOf(d) == preprocessText(rchunks[d])

\* the tokens of all chunks, in chunk order
AllTokens == Flat([d \in 1..Len(rchunks) |-> TokensOf(d)])

\* the first place of a token in a token sequence
FirstPlace(tokens, term) ==
    CHOOSE k \in 1..Len(tokens) :
        tokens[k] = term /\ \A j \in 1..(k - 1) : tokens[j] # term

\* the number of chunks that hold a term
ChunksWith(term) == Cardinality({d \in 1..Len(rchunks) : Includes(TokensOf(d), term)})

\* tf * idf of a term in a chunk with the tokens given, at least one, in a
\* document of n chunks of which df hold the term
ExpectedWeight(tokens, term, n, df) ==
    LET tf  == (Count(tokens, term) * Scale) \div Len(tokens)
        idf == LnTable[n] - LnTable[df]
    IN (tf * idf) \div Scale

C13_OneChunkExamples ==
    rpc \in {"indexed", "returned"} =>
        /\ rchunks = <<>> => (rvocabulary = <<>> /\ rvectors = <<>>)
        /\ rchunks = <<SampleAAA>> =>
              (Len(rvocabulary) = 1 /\ rvectors = <<<<Num(0)>>>>)
        /\ Len(rchunks) = 1 =>
              \A t \in 1..Len(rvocabulary) : rvectors[1][t] = Num(0)

\* C13 (amended): calculateTFIDF([]) returns an empty vocabulary and no
\* vectors; calculateTFIDF(["a a a"]) returns an empty vocabulary and one
\* empty vector, "a" being a stopword; calculateTFIDF(["cats"]) returns the
\* vocabulary [cat] and the single vector [0]; a one-chunk corpus yields 0
\* for every term present.
C13_OneChunkAmended ==
    rpc \in {"indexed", "returned"} =>
        /\ rchunks = <<>> => (rvocabulary = <<>> /\ rvectors = <<>>)
        /\ rchunks = <<SampleAAA>> => (rvocabulary = <<>> /\ rvectors = <<<<>>>>)
        /\ rchunks = <<SampleCats>> =>
              (rvocabulary = <<<<"c", "a", "t">>>> /\ rvectors = <<<<Num(0)>>>>)
        /\ Len(rchunks) = 1 =>
              /\ Len(rvectors) = 1
              /\ Len(rvectors[1]) = Len(rvocabulary)
              /\ \A t \in 1..Len(rvocabulary) : rvectors[1][t] = Num(0)

\* C13's case: a one-chunk corpus with two terms present.
C13_Witness ==
    /\ rpc = "indexed"
    /\ Len(rchunks) = 1
    /\ Len(rvocabulary) = 2

-----------------------------------------------------------------------------
(* simpleStem and preprocessText on their own *)

\* the letters the endings of simpleStem are made of
StemAlphabet == {"i", "e", "s", "d", "n", "g", "l", "y", "r", "t"}

\* the words handed to simpleStem: some filler letters, then up to three
\* letters of the endings
StemWords ==
    {[k \in 1..n |-> "a"] \o suffix :
        n \in 0..MaxStemPrefix, suffix \in SeqsUpTo(StemAlphabet, 3)} \ {<<>>}

\* the words the texts handed to preprocessText are made of
TextWords ==
    { <<"W", "a", "y", "s">>, <<"d", "i", "e", "s">>, <<"T", "h", "e">>,
      <<"i", "t">>, <<"c", "a", "t", "s">>, <<"D", "o", "g", "s", "!">>,
      <<"x", "-", "r", "a", "y">> }

\* the texts handed to preprocessText
Texts == {Join(ws, <<" ">>) : ws \in SeqsUpTo(TextWords, MaxTextWords)}

InitText ==
    /\ \/ \E w \in StemWords : sword = w /\ ptext = <<>> /\ tpc = "stem"
       \/ \E t \in Texts : ptext = t /\ sword = <<>> /\ tpc = "preprocess"
    /\ sresult = <<>>
    /\ stemmed = <<>>
    /\ ChunkIdle
    /\ RankIdle
    /\ AnswerIdle
    /\ ChatIdle
    /\ UploadIdle

\* simpleStem(word)
TextStem ==
    /\ tpc = "stem"
    /\ sresult' = simpleStem(sword)
    /\ tpc' = "stemmed"
    /\ UNCHANGED <<sword, ptext, stemmed, chunkVars, rankVars, answerVars, chatVars, uploadVars>>

\* preprocessText(text)
TextPreprocess ==
    /\ tpc = "preprocess"
    /\ stemmed' = preprocessText(ptext)
    /\ tpc' = "preprocessed"
    /\ UNCHANGED <<sword, sresult, ptext, chunkVars, rankVars, answerVars, chatVars, uploadVars>>

NextText == TextStem \/ TextPreprocess

SpecText == InitText /\ [][NextText]_vars

\* the rule table as specified: first match wins, every rule with its
\* minimum length
SpecifiedStem(word) ==
    IF EndsWith(word, <<"i", "e", "s">>) /\ Len(word) > 3 THEN DropLast(word, 3) \o <<"y">>
    ELSE IF EndsWith(word, <<"i", "e", "d">>) /\ Len(word) > 3 THEN DropLast(word, 3) \o <<"y">>
    ELSE IF EndsWith(word, <<"s">>) /\ ~EndsWith(word, <<"s", "s">>) /\ Len(word) > 3
         THEN DropLast(word, 1)
    ELSE IF EndsWith(word, <<"e", "d">>) /\ Len(word) > 4 THEN DropLast(word, 2)
    ELSE IF EndsWith(word, <<"i", "n", "g">>) /\ Len(word) > 5 THEN DropLast(word, 3)
    ELSE IF EndsWith(word, <<"l", "y">>) /\ Len(word) > 4 THEN DropLast(word, 2)
    ELSE IF EndsWith(word, <<"e", "r">>) /\ Len(word) > 4 THEN DropLast(word, 2)
    ELSE IF EndsWith(word, <<"e", "s", "t">>) /\ Len(word) > 5 THEN DropLast(word, 3)
    ELSE word

\* C14: for every token simpleStem returns what the specified rule table
\* gives (first match wins; 'ies' and 'ied' only when length > 3, 's' not
\* 'ss' when length > 3, 'ed' > 4, 'ing' > 5, 'ly' > 4, 'er' > 4, 'est' > 5,
\* otherwise unchanged), and the result is never the empty string.
C14_RuleTable ==
    tpc = "stemmed" => (sresult = SpecifiedStem(sword) /\ sresult # <<>>)

\* a string without an upper-case letter
IsLowerCase(s) == \A k \in 1..Len(s) : s[k] \notin Range(UpperLetters)

\* the words of a text that the filters of preprocessText let through:
\* lower-cased, punctuation apart, no stopword, three characters or more
KeptWords(s) ==
    SelectSeq(SplitWS(Cleaned(s)), LAMBDA w : w \notin STOPWORDS /\ Len(w) >= 3)

\* C15: every token preprocessText returns is lowercase, is no stopword and
\* has at least 3 characters.
C15_TokensFiltered ==
    tpc = "preprocessed" =>
        \A k \in 1..Len(stemmed) :
            /\ IsLowerCase(stemmed[k])
            /\ stemmed[k] \notin STOPWORDS
            /\ Len(stemmed[k]) >= 3

\* C15 (amended): every token preprocessText returns is lowercase and
\* non-empty, and is the stem of a word of the text that is no stopword and
\* has at least 3 characters, one token per such word and in the order of the
\* words; the stem itself may be a stopword or shorter than 3 characters.
C15_StemsOfFilteredWords ==
    tpc = "preprocessed" =>
        /\ Len(stemmed) = Len(KeptWords(ptext))
        /\ \A k \in 1..Len(stemmed) :
              /\ IsLowerCase(stemmed[k])
              /\ stemmed[k] # <<>>
              /\ stemmed[k] = simpleStem(KeptWords(ptext)[k])

\* C15's case: a text with an upper-case word, a stopword and a word whose
\* stem is a stopword has been preprocessed.
C15_Witness ==
    /\ tpc = "preprocessed"
    /\ ptext = <<"T", "h", "e", " ", "W", "a", "y", "s">>
    /\ stemmed = <<<<"w", "a", "y">>>>

-----------------------------------------------------------------------------
(* Further claims about findRelevantChunks *)

\* the tokens of the query
QueryTokens == preprocessText(rquery)

\* chunk d shares with the query a token that does not occur in every chunk
SharesDistinctive(d) ==
    \E term \in Range(TokensOf(d)) \cap Range(QueryTokens) : ChunksWith(term) < Len(rchunks)

\* chunk d shares no token with the query
SharesNone(d) == Range(TokensOf(d)) \cap Range(QueryTokens) = {}

\* C16: a chunk sharing with the query a token that does not occur in every
\* chunk scores strictly higher than every chunk sharing no token with the
\* query, and a chunk sharing no token with the query is never in the result
\* of findRelevantChunks.
C16_SharingScoresHigher ==
    rpc = "returned" =>
        /\ \A d, e \in 1..Len(rchunks) :
              (SharesDistinctive(d) /\ SharesNone(e)) =>
                  FGreater(rsimilarities[d].score, rsimilarities[e].score)
        /\ \A e \in 1..Len(rchunks) :
              SharesNone(e) => \A k \in 1..Len(rresult) : rresult[k].index # e - 1

-----------------------------------------------------------------------------
(* Further claims about generateAIResponse *)

\* C17: in the context handed to the generation step the selected chunks are
\* the sources numbered 1..n consecutively, in their ranked order, and label
\* i denotes the chunk of the i-th entry of the sources returned to the
\* caller.
C17_LabelsMatchSources ==
    /\ gcalls > 0 =>
          /\ Len(gcontext) = Len(topChunks)
          /\ \A k \in 1..Len(gcontext) :
                /\ gcontext[k].label = k
                /\ gcontext[k].chunk = topChunks[k].chunk
          /\ \A k \in 1..(Len(gcontext) - 1) :
                ~FGreater(topChunks[k + 1].score, topChunks[k].score)
    /\ (gpc = "returned" /\ gcalls > 0) =>
          /\ Len(gresult.sources) = Len(gcontext)
          /\ \A k \in 1..Len(gcontext) :
                gresult.sources[gcontext[k].label].chunk = gcontext[k].chunk

\* C17's case: an answer is returned whose sources come from two documents
\* and hold different chunks.
C17_Witness ==
    /\ gpc = "returned"
    /\ gcalls > 0
    /\ \E j, k \in 1..Len(gresult.sources) :
          /\ j < k
          /\ gresult.sources[j].documentId # gresult.sources[k].documentId
          /\ gresult.sources[j].chunk # gresult.sources[k].chunk

-----------------------------------------------------------------------------
(* ChatInterface: handleSendMessage                                        *)
(* Every await of the handler is a step of its own, so that calls of the   *)
(* handler interleave as the event loop lets them.  An event handler is    *)
(* the one of the latest render: its guard reads the current state.        *)
(* generateAIResponse is taken by its outcome, resolved or rejected, and    *)
(* the auth service is up or down for a whole run.                         *)

\* what the user types into the input
ChatInputs == {<<>>, <<" ">>, <<" ", "q">>}

\* the input and the send button take events:
\* disabled={isLoading || readyDocuments.length === 0}
InputEnabled == ~isLoading /\ anyReady

\* the calls made so far
Calls == 1..Len(hpc)

\* the state when the component is mounted
InitChat ==
    /\ input = <<>>
    /\ isLoading = FALSE
    /\ anyReady \in BOOLEAN
    /\ authUp \in BOOLEAN
    /\ messages = <<>>
    /\ invoked = 0
    /\ hpc = <<>>
    /\ hinput = <<>>
    /\ hdocs = <<>>
    /\ ChunkIdle
    /\ RankIdle
    /\ AnswerIdle
    /\ TextIdle
    /\ UploadIdle

\* onChange={(e) => setInput(e.target.value)}
ChatType ==
    /\ InputEnabled
    /\ \E typed \in ChatInputs \ {input} : input' = typed
    /\ UNCHANGED <<isLoading, anyReady, authUp, messages, invoked, hpc, hinput, hdocs,
                   chunkVars, rankVars, answerVars, textVars, uploadVars>>

\* Enter or a click calls handleSendMessage, and the call passes
\* if (!input.trim() || isLoading) return; it runs up to await blink.auth.me().
\* A call that returns at the guard changes nothing.
ChatInvoke ==
    /\ invoked < MaxCalls
    /\ InputEnabled
    /\ ~(Trim(input) = <<>> \/ isLoading)
    /\ invoked' = invoked + 1
    /\ hpc' = Append(hpc, "auth")
    /\ hinput' = Append(hinput, input)
    /\ hdocs' = Append(hdocs, "none")
    /\ UNCHANGED <<input, isLoading, anyReady, authUp, messages,
                   chunkVars, rankVars, answerVars, textVars, uploadVars>>

\* const userMessage = { type: 'user', content: input.trim(), ... }
UserMessage(c) == [type |-> "user", call |-> c, content |-> Trim(hinput[c])]

\* const aiResponse = { type: 'assistant', content: aiResult.answer, ... }
AiResponse(c) == [type |-> "assistant", call |-> c, content |-> <<"answer">>]

\* const errorResponse = { type: 'assistant', content: `I apologize, ...`, ... }
ErrorResponse(c) == [type |-> "assistant", call |-> c, content |-> <<"apology">>]

\* the first auth lookup resolves:
\* onMessageSent(userMessage); setInput(''); setIsLoading(true); the loads start
ChatAccept(c) ==
    /\ c \in Calls
    /\ hpc[c] = "auth"
    /\ authUp
    /\ messages' = Append(messages, UserMessage(c))
    /\ input' = <<>>
    /\ isLoading' = TRUE
    /\ hpc' = [hpc EXCEPT ![c] = "loading"]
    /\ UNCHANGED <<anyReady, authUp, invoked, hinput, hdocs,
                   chunkVars, rankVars, answerVars, textVars, uploadVars>>

\* Promise.all resolves: every document gives its chunks ("loaded") or, when
\* listing failed or gave none for some document, the fallback data
\* ("fallback"); no document at all is an error
ChatLoaded(c) ==
    /\ c \in Calls
    /\ hpc[c] = "loading"
    /\ IF anyReady
       THEN /\ \E loads \in {"loaded", "fallback"} : hdocs' = [hdocs EXCEPT ![c] = loads]
            /\ hpc' = [hpc EXCEPT ![c] = "generating"]
       ELSE /\ hpc' = [hpc EXCEPT ![c] = "catching"]
            /\ UNCHANGED hdocs
    /\ UNCHANGED <<input, isLoading, anyReady, authUp, messages, invoked, hinput,
                   chunkVars, rankVars, answerVars, textVars, uploadVars>>

\* generateAIResponse resolves (up to the auth lookup of aiResponse) or
\* rejects (up to the auth lookup of errorResponse)
ChatGenerated(c) ==
    /\ c \in Calls
    /\ hpc[c] = "generating"
    /\ \E resolved \in BOOLEAN :
          hpc' = [hpc EXCEPT ![c] = IF resolved THEN "answering" ELSE "catching"]
    /\ UNCHANGED <<input, isLoading, anyReady, authUp, messages, invoked, hinput, hdocs,
                   chunkVars, rankVars, answerVars, textVars, uploadVars>>

\* onMessageSent(aiResponse); finally { setIsLoading(false) }
ChatAnswer(c) ==
    /\ c \in Calls
    /\ hpc[c] = "answering"
    /\ authUp
    /\ messages' = Append(messages, AiResponse(c))
    /\ isLoading' = FALSE
    /\ hpc' = [hpc EXCEPT ![c] = "done"]
    /\ UNCHANGED <<input, anyReady, authUp, invoked, hinput, hdocs,
                   chunkVars, rankVars, answerVars, textVars, uploadVars>>

\* ChatCatch without onMessageSent(errorResponse)
ChatCatchSilent(c) ==
    /\ c \in Calls
    /\ hpc[c] = "catching"
    /\ authUp
    /\ isLoading' = FALSE
    /\ hpc' = [hpc EXCEPT ![c] = "done"]
    /\ UNCHANGED <<input, anyReady, authUp, messages, invoked, hinput, hdocs,
                   chunkVars, rankVars, answerVars, textVars, uploadVars>>

\* catch: onMessageSent(errorResponse); finally { setIsLoading(false) }
ChatCatch(c) ==
    /\ c \in Calls
    /\ hpc[c] = "catching"
    /\ authUp
    /\ messages' = Append(messages, ErrorResponse(c))
    /\ isLoading' = FALSE
    /\ hpc' = [hpc EXCEPT ![c] = "done"]
    /\ UNCHANGED <<input, anyReady, authUp, invoked, hinput, hdocs,
                   chunkVars, rankVars, answerVars, textVars, uploadVars>>

\* the first auth lookup rejects: the call ends before the try block
ChatAuthRejects(c) ==
    /\ c \in Calls
    /\ hpc[c] = "auth"
    /\ ~authUp
    /\ hpc' = [hpc EXCEPT ![c] = "rejected"]
    /\ UNCHANGED <<input, isLoading, anyReady, authUp, messages, invoked, hinput, hdocs,
                   chunkVars, rankVars, answerVars, textVars, uploadVars>>

NextChat ==
    \/ ChatType
    \/ ChatInvoke
    \/ \E c \in 1..MaxCalls :
          \/ ChatAccept(c)
          \/ ChatLoaded(c)
          \/ ChatGenerated(c)
          \/ ChatAnswer(c)
          \/ ChatCatch(c)
          \/ ChatAuthRejects(c)

SpecChat == InitChat /\ [][NextChat]_vars

\* every promise the handler awaits settles, and its continuation runs
ChatProgress ==
    \A c \in 1..MaxCalls :
        /\ WF_vars(ChatAccept(c))
        /\ WF_vars(ChatLoaded(c))
        /\ WF_vars(ChatGenerated(c))
        /\ WF_vars(ChatAnswer(c))
        /\ WF_vars(ChatCatch(c))
        /\ WF_vars(ChatAuthRejects(c))

SpecChatFair == SpecChat /\ ChatProgress

\* the places in the message list of the messages of a type that call c sent
Sent(c, type) ==
    {k \in 1..Len(messages) : messages[k].call = c /\ messages[k].type = type}

\* call c has passed the guard and has not ended
InFlight(c) == hpc[c] \in {"auth", "loading", "generating", "answering", "catching"}

\* while the auth lookups succeed: a call that has passed the guard sends its
\* user message once, the trimmed input, before anything else, and has sent
\* exactly one assistant message after it, the answer or the apology, when it
\* ends
C18_OneReplyEach ==
    authUp =>
        \A c \in Calls :
            /\ hpc[c] = "auth" =>
                  (Sent(c, "user") = {} /\ Sent(c, "assistant") = {})
            /\ hpc[c] \in {"loading", "generating", "answering", "catching"} =>
                  /\ Cardinality(Sent(c, "user")) = 1
                  /\ Sent(c, "assistant") = {}
            /\ hpc[c] = "done" =>
                  /\ Cardinality(Sent(c, "user")) = 1
                  /\ Cardinality(Sent(c, "assistant")) = 1
                  /\ \A u \in Sent(c, "user"), a \in Sent(c, "assistant") :
                        /\ u < a
                        /\ messages[u].content = Trim(hinput[c])
                        /\ messages[u].content # <<>>
                        /\ messages[a].content \in {<<"answer">>, <<"apology">>}

\* C18: assuming the auth lookup succeeds, every call of handleSendMessage
\* that passes its guard delivers the user message and then exactly one
\* assistant message, the answer or the apology, whatever chunk loading and
\* generation do, and eventually sets isLoading back to false.
C18_RepliesAndStopsLoading ==
    /\ [](C18_OneReplyEach)
    /\ \A c \in 1..MaxCalls :
          (authUp /\ c \in Calls /\ hpc[c] = "auth")
              ~> (c \in Calls /\ hpc[c] = "done" /\ ~isLoading)

\* C18's case: a call ended with the apology after a document was loaded
\* through the fallback, another ended with an answer, the auth lookups all
\* succeeded and isLoading is false again.
C18_Witness ==
    /\ authUp
    /\ ~isLoading
    /\ \E c, d \in Calls :
          /\ hpc[c] = "done" /\ hpc[d] = "done"
          /\ hdocs[c] = "fallback"
          /\ \E a \in Sent(c, "assistant") : messages[a].content = <<"apology">>
          /\ \E a \in Sent(d, "assistant") : messages[a].content = <<"answer">>

\* C19: at most one question is in flight at a time: from the acceptance of
\* a question to the delivery of its assistant message no other call of
\* handleSendMessage passes the guard and sends a second user message.
C19_OneInFlight ==
    /\ Cardinality({c \in Calls : InFlight(c)}) <= 1
    /\ \A c, d \in Calls :
          (c # d /\ Sent(c, "user") # {} /\ Sent(d, "user") # {}) =>
              \/ \E a \in Sent(c, "assistant") : \A u \in Sent(d, "user") : a < u
              \/ \E a \in Sent(d, "assistant") : \A u \in Sent(c, "user") : a < u

-----------------------------------------------------------------------------
(* DocumentUpload: processFile                                             *)
(* Every await of processFile is a step of its own.  The calls of          *)
(* blink.db.textChunks.create are all started before the first of them     *)
(* settles; Promise.all rejects with the first of them that rejects, and   *)
(* the others still settle afterwards.                                     *)

\* the indices of the chunks of the file
ChunkIndices == 0..(ufile.chunks - 1)

\* the state at the call of processFile(file); upsert: the storage may hold
\* a file of that name already
InitUpload ==
    /\ ufile \in [pdf : BOOLEAN, chunks : 1..MaxUploadChunks]
    /\ upc = "call"
    /\ isUploading = FALSE
    /\ inStorage \in BOOLEAN
    /\ dbDocuments = {}
    /\ dbChunks = {}
    /\ chunkPromises = {}
    /\ uploaded = FALSE
    /\ alerted = FALSE
    /\ ChunkIdle
    /\ RankIdle
    /\ AnswerIdle
    /\ TextIdle
    /\ ChatIdle

\* if (file.type !== 'application/pdf') { alert(...); return }
\* setIsUploading(true); up to await blink.auth.me()
UploadStart ==
    /\ upc = "call"
    /\ IF ufile.pdf
       THEN /\ isUploading' = TRUE
            /\ upc' = "auth"
            /\ UNCHANGED alerted
       ELSE /\ alerted' = TRUE
            /\ upc' = "returned"
            /\ UNCHANGED isUploading
    /\ UNCHANGED <<ufile, inStorage, dbDocuments, dbChunks, chunkPromises, uploaded,
                   chunkVars, rankVars, answerVars, textVars, chatVars>>

\* blink.auth.me() resolves: up to await blink.storage.upload(...)
UploadAuthed ==
    /\ upc = "auth"
    /\ upc' = "storing"
    /\ UNCHANGED <<ufile, isUploading, inStorage, dbDocuments, dbChunks, chunkPromises,
                   uploaded, alerted, chunkVars, rankVars, answerVars, textVars, chatVars>>

\* blink.storage.upload resolves: up to await processPDF(file)
UploadStored ==
    /\ upc = "storing"
    /\ inStorage' = TRUE
    /\ upc' = "processing"
    /\ UNCHANGED <<ufile, isUploading, dbDocuments, dbChunks, chunkPromises,
                   uploaded, alerted, chunkVars, rankVars, answerVars, textVars, chatVars>>

\* processPDF resolves: up to await blink.db.documents.create({...})
UploadProcessed ==
    /\ upc = "processing"
    /\ upc' = "creating"
    /\ UNCHANGED <<ufile, isUploading, inStorage, dbDocuments, dbChunks, chunkPromises,
                   uploaded, alerted, chunkVars, rankVars, answerVars, textVars, chatVars>>

\* blink.db.documents.create resolves: the record has status 'ready'; every
\* blink.db.textChunks.create is started; up to await Promise.all
UploadCreated ==
    /\ upc = "creating"
    /\ dbDocuments' = dbDocuments \cup {"ready"}
    /\ chunkPromises' = ChunkIndices
    /\ upc' = "chunking"
    /\ UNCHANGED <<ufile, isUploading, inStorage, dbChunks, uploaded, alerted,
                   chunkVars, rankVars, answerVars, textVars, chatVars>>

\* a blink.db.textChunks.create resolves; when it is the last one and none
\* has rejected, Promise.all resolves: onDocumentUploaded, finally
UploadChunkCreated(k) ==
    /\ k \in chunkPromises
    /\ dbChunks' = dbChunks \cup {k}
    /\ chunkPromises' = chunkPromises \ {k}
    /\ IF upc = "chunking" /\ chunkPromises = {k}
       THEN /\ uploaded' = TRUE
            /\ isUploading' = FALSE
            /\ upc' = "done"
       ELSE UNCHANGED <<uploaded, isUploading, upc>>
    /\ UNCHANGED <<ufile, inStorage, dbDocuments, alerted,
                   chunkVars, rankVars, answerVars, textVars, chatVars>>

\* a blink.db.textChunks.create rejects; when it is the first one to reject,
\* Promise.all rejects: catch (alert), finally
UploadChunkRejected(k) ==
    /\ k \in chunkPromises
    /\ chunkPromises' = chunkPromises \ {k}
    /\ IF upc = "chunking"
       THEN /\ alerted' = TRUE
            /\ isUploading' = FALSE
            /\ upc' = "failed"
       ELSE UNCHANGED <<alerted, isUploading, upc>>
    /\ UNCHANGED <<ufile, inStorage, dbDocuments, dbChunks, uploaded,
                   chunkVars, rankVars, answerVars, textVars, chatVars>>

\* the awaited call before the chunks rejects: catch (alert), finally
UploadRejected ==
    /\ upc \in {"auth", "storing", "processing", "creating"}
    /\ alerted' = TRUE
    /\ isUploading' = FALSE
    /\ upc' = "failed"
    /\ UNCHANGED <<ufile, inStorage, dbDocuments, dbChunks, chunkPromises, uploaded,
                   chunkVars, rankVars, answerVars, textVars, chatVars>>

NextUpload ==
    \/ UploadStart
    \/ UploadAuthed
    \/ UploadStored
    \/ UploadProcessed
    \/ UploadCreated
    \/ \E k \in 0..(MaxUploadChunks - 1) : UploadChunkCreated(k) \/ UploadChunkRejected(k)
    \/ UploadRejected

SpecUpload == InitUpload /\ [][NextUpload]_vars

\* C20: in every state reachable by processFile, also after a storage or
\* database call has failed, a document record with status 'ready' exists
\* only if every one of its chunks is stored, and a document whose upload
\* failed is neither stored as 'ready' nor reported through
\* onDocumentUploaded.
C20_AllOrNothing ==
    /\ "ready" \in dbDocuments => dbChunks = ChunkIndices
    /\ upc = "failed" => ("ready" \notin dbDocuments /\ ~uploaded)

-----------------------------------------------------------------------------
(* processPDF, then a search in the document it made                       *)
(* processPDF calls chunkText(cleanedText, 300, 30) and hands the chunks   *)
(* to calculateTFIDF.  The same code runs here at small sizes: every       *)
(* chunkSize and overlap with 0 < overlap < chunkSize stands for 300 and   *)
(* 30, and the text has a few words.                                       *)

\* the words of the extracted text
PdfWords == {SampleCats, SampleDogs}

\* cleanedText: the words separated by single spaces, trimmed, not empty
PdfTexts == {Join(ws, <<" ">>) : ws \in SeqsUpTo(PdfWords, MaxPdfWords) \ {<<>>}}

\* the state at the call of chunkText in processPDF
InitPdf ==
    /\ text \in PdfTexts
    /\ chunkSize \in 2..MaxChunkSize
    /\ overlap \in 1..MaxOverlap
    /\ overlap < chunkSize
    /\ words = <<>>
    /\ i = 0
    /\ chunks = <<>>
    /\ cpc = "call"
    /\ cerror = "none"
    /\ iter = 0
    /\ RankIdle
    /\ AnswerIdle
    /\ TextIdle
    /\ ChatIdle
    /\ UploadIdle

\* if (chunks.length === 0) throw ...; calculateTFIDF(chunks); later a query
\* is put to the document with the topK of generateAIResponse
PdfIndex ==
    /\ cpc = "returned"
    /\ rpc = "idle"
    /\ Len(chunks) # 0
    /\ rchunks' = chunks
    /\ LET built == calculateTFIDF(chunks)
       IN /\ rvectors' = built.vectors
          /\ rvocabulary' = built.vocabulary
    /\ rquery' \in Queries
    /\ rtopK' = PerDocTopK
    /\ rpc' = "indexed"
    /\ UNCHANGED <<rqueryVector, rsimilarities, rresult, chunkVars, answerVars, textVars,
                   chatVars, uploadVars>>

NextPdf == ChunkSplit \/ ChunkLoop \/ ChunkReturn \/ PdfIndex \/ RankFind

SpecPdf == InitPdf /\ [][NextPdf]_vars

\* a document of exactly one chunk: every TF-IDF weight is 0, the chunk
\* scores 0 for the query and the result of findRelevantChunks is empty
OneChunkNeverRelevant ==
    Len(rchunks) = 1 =>
        /\ rpc \in {"indexed", "returned"} =>
              /\ Len(rvectors) = 1
              /\ \A t \in 1..Len(rvectors[1]) : rvectors[1][t] = Num(0)
        /\ rpc = "returned" =>
              /\ Len(rsimilarities) = 1
              /\ rsimilarities[1].score = Num(0)
              /\ rresult = <<>>

\* C21: a document of exactly one chunk, which is what processPDF makes of
\* any text of at most chunkSize (300) words, has every TF-IDF weight 0, is
\* scored 0 for every query and gives an empty result: it never contributes
\* a source.
C21_OneChunkUpToChunkSize ==
    /\ (cpc = "returned" /\ Len(RealWords(text)) <= chunkSize) => Len(chunks) = 1
    /\ OneChunkNeverRelevant

\* C21 (amended): a document of exactly one chunk, which is what processPDF
\* makes of any text of at most chunkSize - overlap (270) words, has every
\* TF-IDF weight 0, is scored 0 for every query and gives an empty result: it
\* never contributes a source.  A longer text gives two chunks or more.
C21_OneChunkUpToStep ==
    /\ (cpc = "returned" /\ Len(RealWords(text)) <= chunkSize - overlap) =>
          Len(chunks) = 1
    /\ (cpc = "returned" /\ Len(RealWords(text)) > chunkSize - overlap) =>
          Len(chunks) >= 2
    /\ OneChunkNeverRelevant

\* C21's case: a text of no more words than the step was made into one
\* chunk, the chunk holds a token of the query, and the search has returned.
C21_Witness ==
    /\ rpc = "returned"
    /\ Len(RealWords(text)) > 1
    /\ Len(RealWords(text)) <= chunkSize - overlap
    /\ Len(rchunks) = 1
    /\ Range(TokensOf(1)) \cap Range(QueryTokens) # {}
    /\ \E t \in 1..Len(rqueryVector) : FGreater(rqueryVector[t], Num(0))

=============================================================================
